---- MODULE Spec2Model ----
(***************************************************************************)
(* A model of csvcombiner.py: the ingestion of uploaded CSV and ZIP files  *)
(* (read_single_csv, process_zip_file, process_uploaded_files), the merge  *)
(* done by pd.concat, and the script body main() that Streamlit re-runs on *)
(* every widget interaction (merge press, cleaning options, export).       *)
(*                                                                         *)
(* Text (file names, text cells) is a sequence of one-character strings,   *)
(* so that lower(), endswith(), startswith() and os.path.basename() are    *)
(* computed character by character.  A byte stream is modelled by what the *)
(* two library readers make of it: what pd.read_csv returns or raises, and *)
(* what zipfile.ZipFile lists or raises.                                   *)
(***************************************************************************)
EXTENDS Integers, Sequences, FiniteSets, TLC

VARIABLES
    raw_combined_df,    \* st.session_state.raw_combined_df
    uploaded_files,     \* value of the file uploader at the last merge press
    join_str,           \* join string derived from the merge-strategy radio
    process_button,     \* whether the last script run was a "Merge Files" press
    remove_duplicates,  \* checkbox value in the last run
    missing_threshold,  \* slider value in the last run
    sort_col,           \* selectbox value in the last run
    sort_ascending,     \* checkbox value in the last run
    sort_options,       \* options list the selectbox was built with in the last run
    all_dfs,            \* local all_dfs of process_uploaded_files in the last run
    reader_calls,       \* calls of read_single_csv made in the last run
    df,                 \* local df of main() when the last run ended (or faulted)
    csv_data,           \* bytes handed to the download button in the last run
    messages,           \* st.error / st.warning / st.info / st.success of the last run
    fault               \* uncaught exception of the last run, or "none"

vars == <<raw_combined_df, uploaded_files, join_str, process_button,
          remove_duplicates, missing_threshold, sort_col, sort_ascending,
          sort_options, all_dfs, reader_calls, df, csv_data, messages, fault>>

----------------------------------------------------------------------------
(* Bounds *)

\* Longest upload list of a first merge (ingestion specification).
MaxUploads == 2
\* Longest upload list of a merge press in the interactive specification.
MaxBatch == 2

----------------------------------------------------------------------------
(* Text *)

Upper == <<"A","B","C","D","E","F","G","H","I","J","K","L","M",
           "N","O","P","Q","R","S","T","U","V","W","X","Y","Z">>
Lowers == <<"a","b","c","d","e","f","g","h","i","j","k","l","m",
            "n","o","p","q","r","s","t","u","v","w","x","y","z">>
Digits == <<"0","1","2","3","4","5","6","7","8","9">>
\* The characters in code-point order (what Python compares strings by).
Ascii == <<" ", "-", ".", "/">> \o Digits \o <<">">> \o Upper \o <<"_">> \o Lowers

Range(s) == {s[i] : i \in 1..Len(s)}

IndexOf(s, x) == CHOOSE i \in 1..Len(s) : s[i] = x

CharRank(c) == IndexOf(Ascii, c)

\* str.lower() on one character.
LowerChar(c) == IF c \in Range(Upper) THEN Lowers[IndexOf(Upper, c)] ELSE c

\* str.lower()
Lower(s) == [i \in 1..Len(s) |-> LowerChar(s[i])]

\* str.endswith(suf)
EndsWith(s, suf) ==
    /\ Len(suf) <= Len(s)
    /\ SubSeq(s, Len(s) - Len(suf) + 1, Len(s)) = suf

\* str.startswith(pre)
StartsWith(s, pre) ==
    /\ Len(pre) <= Len(s)
    /\ SubSeq(s, 1, Len(pre)) = pre

\* os.path.basename(p): what follows the last "/".
Basename(p) ==
    LET slashes == {i \in 1..Len(p) : p[i] = "/"}
        last == IF slashes = {} THEN 0
                ELSE CHOOSE i \in slashes : \A j \in slashes : j <= i
    IN SubSeq(p, last + 1, Len(p))

\* Python's < on two strings.
RECURSIVE LexLess(_, _)
LexLess(a, b) ==
    IF b = <<>> THEN FALSE
    ELSE IF a = <<>> THEN TRUE
    ELSE IF a[1] # b[1] THEN CharRank(a[1]) < CharRank(b[1])
    ELSE LexLess(Tail(a), Tail(b))

\* str(n) for n >= 0.
RECURSIVE IntText(_)
IntText(n) ==
    IF n < 10 THEN <<Digits[n + 1]>>
    ELSE IntText(n \div 10) \o <<Digits[(n % 10) + 1]>>

DotCsv == <<".", "c", "s", "v">>
DotZip == <<".", "z", "i", "p">>
MacosxPrefix == <<"_", "_", "M", "A", "C", "O", "S", "X", "/">>
Arrow == <<" ", "-", ">", " ">>

----------------------------------------------------------------------------
(* Cells, data frames, messages *)

\* NaN / None: a missing cell.
NULL == [t |-> "nan", v |-> 0]
IntCell(n) == [t |-> "int", v |-> n]
StrCell(s) == [t |-> "str", v |-> s]
\* A float64 cell holding the whole number n (what an int64 cell becomes when
\* its column is upcast because of NaN).
FloatCell(n) == [t |-> "float", v |-> n]

DataFrame(cols, rows) == [isdf |-> TRUE, columns |-> cols, rows |-> rows]
\* Python's None where a DataFrame is expected.
None == [isdf |-> FALSE, columns |-> <<>>, rows |-> <<>>]

NoBytes == [isbytes |-> FALSE, header |-> <<>>, lines |-> <<>>]

Msg(kind, file, col, n) == [kind |-> kind, file |-> file, col |-> col, n |-> n]

\* What pd.read_csv makes of a byte stream: a frame, or an exception.
Parsed(cols, rows) == [ok |-> TRUE, columns |-> cols, rows |-> rows]
ParseError == [ok |-> FALSE, columns |-> <<>>, rows |-> <<>>]

\* What zipfile.ZipFile makes of a byte stream: the entries, or BadZipFile.
Zip(entries) == [valid |-> TRUE, entries |-> entries]
NotAZip == [valid |-> FALSE, entries |-> <<>>]
\* One archive entry: its path, whether z.open succeeds, what read_csv makes of it.
Entry(filename, openable, parsed) ==
    [filename |-> filename, openable |-> openable, parsed |-> parsed]

Upload(name, parsed, zip) == [name |-> name, parsed |-> parsed, zip |-> zip]

----------------------------------------------------------------------------
(* read_single_csv *)

\* df['source_file'] = filename: overwrite the column if the file has one,
\* append it otherwise.
SetSourceFile(cols, rows, filename) ==
    IF "source_file" \in Range(cols)
    THEN DataFrame(cols,
            [r \in 1..Len(rows) |->
                [k \in 1..Len(cols) |->
                    IF cols[k] = "source_file" THEN StrCell(filename)
                    ELSE rows[r][k]]])
    ELSE DataFrame(Append(cols, "source_file"),
            [r \in 1..Len(rows) |-> Append(rows[r], StrCell(filename))])

\* The frame read_single_csv returns (None when pd.read_csv raised).
ReadSingleCsv(parsed, filename) ==
    IF parsed.ok THEN SetSourceFile(parsed.columns, parsed.rows, filename)
    ELSE None

\* The running state of an ingestion: all_dfs, the messages shown, and the
\* calls of read_single_csv made so far (upload index, archive entry index or
\* 0 for a direct upload, logical name).
NoIngest == [dfs |-> <<>>, msgs |-> <<>>, calls |-> <<>>]

\* One call of read_single_csv and the "if df is not None: append".
AfterRead(acc, parsed, filename, u, m) ==
    LET got == ReadSingleCsv(parsed, filename) IN
    [dfs   |-> IF got = None THEN acc.dfs ELSE Append(acc.dfs, got),
     msgs  |-> IF got = None
               THEN Append(acc.msgs, Msg("error_reading_file", filename, "", 0))
               ELSE acc.msgs,
     calls |-> Append(acc.calls, [upload |-> u, member |-> m, name |-> filename])]

----------------------------------------------------------------------------
(* process_zip_file *)

\* The filter of the list comprehension over z.infolist().
IsCsvMember(filename) ==
    /\ EndsWith(filename, DotCsv)
    /\ ~StartsWith(filename, MacosxPrefix)

CompositeName(zipname, filename) == zipname \o Arrow \o Basename(filename)

\* The loop over csv_files from its k-th element on.  z.open raising leaves
\* the loop through the outer "except Exception".
RECURSIVE ZipLoop(_, _, _, _, _)
ZipLoop(acc, zf, u, csv_files, k) ==
    IF k > Len(csv_files) THEN acc
    ELSE LET e == zf.zip.entries[csv_files[k]] IN
         IF ~e.openable
         THEN [acc EXCEPT !.msgs =
                   Append(@, Msg("error_unexpected_zip", zf.name, "", 0))]
         ELSE ZipLoop(AfterRead(acc, e.parsed,
                                CompositeName(zf.name, e.filename),
                                u, csv_files[k]),
                      zf, u, csv_files, k + 1)

ProcessZipFile(acc, zf, u) ==
    IF ~zf.zip.valid
    THEN [acc EXCEPT !.msgs = Append(@, Msg("error_bad_zip", zf.name, "", 0))]
    ELSE LET n == Len(zf.zip.entries)
             IsCand(i) == IsCsvMember(zf.zip.entries[i].filename)
             csv_files == SelectSeq([i \in 1..n |-> i], IsCand)
         IN IF csv_files = <<>>
            THEN [acc EXCEPT !.msgs =
                      Append(@, Msg("warning_no_csv_in_zip", zf.name, "", 0))]
            ELSE ZipLoop(acc, zf, u, csv_files, 1)

----------------------------------------------------------------------------
(* pd.concat(all_dfs, ignore_index=True, join=join_strategy) *)

\* join='outer', sort=False: the union of the columns in first-seen order.
RECURSIVE UnionColumnsLastSeen(_)
UnionColumnsLastSeen(dfs) ==
    IF dfs = <<>> THEN <<>>
    ELSE LET rest == UnionColumnsLastSeen(Tail(dfs))
             NotLater(c) == c \notin Range(rest)
         IN rest \o SelectSeq(dfs[1].columns, NotLater)

RECURSIVE UnionColumns(_)
UnionColumns(dfs) ==
    IF dfs = <<>> THEN <<>>
    ELSE LET n == Len(dfs)
             before == UnionColumns(SubSeq(dfs, 1, n - 1))
             IsNew(c) == c \notin Range(before)
         IN before \o SelectSeq(dfs[n].columns, IsNew)

IntersectColumnsAsUnion(dfs) == UnionColumns(dfs)

\* join='inner': the first frame's columns that every frame has.
IntersectColumns(dfs) ==
    LET InAll(c) == \A i \in 1..Len(dfs) : c \in Range(dfs[i].columns)
    IN SelectSeq(dfs[1].columns, InAll)

\* One frame's rows laid out on the result's columns; a column the frame
\* lacks is NaN.
Reindex(frame, cols) ==
    [r \in 1..Len(frame.rows) |->
        [k \in 1..Len(cols) |->
            IF cols[k] \in Range(frame.columns)
            THEN frame.rows[r][IndexOf(frame.columns, cols[k])]
            ELSE NULL]]

StackRowsReversed(acc, rows) == rows \o acc

\* The rows of the next frame go below the rows stacked so far.
StackRows(acc, rows) == acc \o rows

RECURSIVE ConcatRows(_, _)
ConcatRows(dfs, cols) ==
    IF dfs = <<>> THEN <<>>
    ELSE LET n == Len(dfs)
         IN StackRows(ConcatRows(SubSeq(dfs, 1, n - 1), cols),
                      Reindex(dfs[n], cols))

\* The dtype of a result column: an int64 column that received NaN (and holds
\* no text) becomes float64; a column holding text is object and keeps its
\* cells as they are.
Upcast(rows, ncols) ==
    LET HasNull(k) == \E r \in 1..Len(rows) : rows[r][k].t \in {"nan", "float"}
        HasText(k) == \E r \in 1..Len(rows) : rows[r][k].t = "str"
    IN [r \in 1..Len(rows) |->
           [k \in 1..ncols |->
               IF rows[r][k].t = "int" /\ HasNull(k) /\ ~HasText(k)
               THEN FloatCell(rows[r][k].v)
               ELSE rows[r][k]]]

PdConcat(dfs, join) ==
    LET cols == IF join = "outer" THEN UnionColumns(dfs)
                ELSE IntersectColumns(dfs)
    IN DataFrame(cols, Upcast(ConcatRows(dfs, cols), Len(cols)))

----------------------------------------------------------------------------
(* process_uploaded_files *)

\* The loop over uploaded_files from its i-th element on.
RECURSIVE UploadLoop(_, _, _)
UploadLoop(acc, files, i) ==
    IF i > Len(files) THEN acc
    ELSE LET file == files[i] IN
         UploadLoop(
            IF EndsWith(Lower(file.name), DotCsv)
            THEN AfterRead(acc, file.parsed, file.name, i, 0)
            ELSE IF EndsWith(Lower(file.name), DotZip)
            THEN ProcessZipFile(acc, file, i)
            ELSE [acc EXCEPT !.msgs =
                      Append(@, Msg("warning_unsupported", file.name, "", 0))],
            files, i + 1)

\* all_dfs, messages and reader calls when the loop has ended.
Ingest(files) == UploadLoop(NoIngest, files, 1)

\* The return value: None when no frame survived, the concatenation otherwise.
MergeResult(dfs, join) == IF dfs = <<>> THEN None ELSE PdConcat(dfs, join)

ProcessUploadedFiles(files, join) == MergeResult(Ingest(files).dfs, join)

----------------------------------------------------------------------------
(* The cleaning steps of main() *)

NullCount(frame, k) ==
    Cardinality({r \in 1..Len(frame.rows) : frame.rows[r][k] = NULL})

\* frame[cols]: the columns at the positions keep, in that order.
TakeColumns(frame, keep) ==
    DataFrame([j \in 1..Len(keep) |-> frame.columns[keep[j]]],
              [r \in 1..Len(frame.rows) |->
                  [j \in 1..Len(keep) |-> frame.rows[r][keep[j]]]])

\* df.isnull().mean() * 100 <= missing_threshold, column by column.  The mean
\* of a column without rows is NaN, and NaN <= t is False.
KeptColumns(frame, t) ==
    LET n == Len(frame.rows)
        Keep(k) == n > 0 /\ NullCount(frame, k) * 100 <= t * n
    IN SelectSeq([k \in 1..Len(frame.columns) |-> k], Keep)

PruneColumns(frame, t) == TakeColumns(frame, KeptColumns(frame, t))

\* df.drop_duplicates(): the first occurrence of every row (NaN equals NaN).
DropDuplicates(frame) ==
    LET First(r) == \A q \in 1..(r - 1) : frame.rows[q] # frame.rows[r]
        keep == SelectSeq([r \in 1..Len(frame.rows) |-> r], First)
    IN DataFrame(frame.columns, [j \in 1..Len(keep) |-> frame.rows[keep[j]]])

IsNumber(c) == c.t \in {"int", "float"}

\* Python's < on two non-null cells of one kind.
CellLess(a, b) ==
    IF IsNumber(a) THEN a.v < b.v ELSE LexLess(a.v, b.v)

\* Comparing text with a number raises TypeError.
SortRaises(frame, k) ==
    \E p, q \in 1..Len(frame.rows) :
        /\ IsNumber(frame.rows[p][k])
        /\ frame.rows[q][k].t = "str"

\* rows sorted by column k, row in its place: after every row it is not
\* strictly before (stable).
RECURSIVE InsertRow(_, _, _, _)
InsertRow(sorted, row, k, asc) ==
    LET Before(a, b) == IF asc THEN CellLess(a, b) ELSE CellLess(b, a)
    IN IF sorted = <<>> THEN <<row>>
       ELSE IF Before(row[k], sorted[1][k]) THEN <<row>> \o sorted
       ELSE <<sorted[1]>> \o InsertRow(Tail(sorted), row, k, asc)

RECURSIVE SortRows(_, _, _)
SortRows(rows, k, asc) ==
    IF rows = <<>> THEN <<>>
    ELSE LET n == Len(rows)
         IN InsertRow(SortRows(SubSeq(rows, 1, n - 1), k, asc), rows[n], k, asc)

\* df.sort_values(by=col, ascending=asc): the rows with a value, sorted, then
\* the rows with NaN in their order (na_position='last').
SortValues(frame, k, asc) ==
    LET HasValue(row) == row[k] # NULL
        IsNull(row) == row[k] = NULL
    IN DataFrame(frame.columns,
                 SortRows(SelectSeq(frame.rows, HasValue), k, asc)
                     \o SelectSeq(frame.rows, IsNull))

----------------------------------------------------------------------------
(* convert_df_to_csv *)

\* One cell as to_csv writes it: NaN as the empty field, a float64 whole
\* number with ".0".
CellText(c) ==
    CASE c.t = "nan"   -> <<>>
      [] c.t = "int"   -> IntText(c.v)
      [] c.t = "float" -> IntText(c.v) \o <<".", "0">>
      [] OTHER         -> c.v

\* df.to_csv(index=False): the header line, then one line per row.
ConvertDfToCsv(frame) ==
    [isbytes |-> TRUE,
     header  |-> frame.columns,
     lines   |-> [r \in 1..Len(frame.rows) |->
                    [k \in 1..Len(frame.columns) |-> CellText(frame.rows[r][k])]]]

----------------------------------------------------------------------------
(* main(): one run of the script *)

\* The slider value at which the pruning step is not entered.
KeepAllThreshold == 100

\* join_str = 'outer' if "ALL" in merge_type else 'inner'
JoinStr(merge_type) ==
    IF merge_type = "Keep ALL columns (Union)" THEN "outer" ELSE "inner"

\* The options of the sort selectbox, built from the session's frame.
SortOptions(raw) == <<"None">> \o (IF raw # None THEN raw.columns ELSE <<>>)

SessionKeep(old) == old

\* st.session_state.raw_combined_df = None, before a batch is processed.
SessionReset(old) == None

RawAfterDisplayInPlace(raw, shown) == shown

\* The display block works on raw_combined_df.copy() and assigns nothing to
\* the session: the session's frame after the block is the one before it.
RawAfterDisplay(raw, shown) == raw

\* The session's frame after the "if process_button:" block, combined_df being
\* what process_uploaded_files returned.
AfterProcessing(press, files, combined_df) ==
    IF press /\ files # <<>>
    THEN IF combined_df # None THEN combined_df
         ELSE SessionReset(raw_combined_df)
    ELSE raw_combined_df

\* The messages of the "if process_button:" block, ingest_msgs being those of
\* process_uploaded_files.
ProcessingMessages(press, files, ingest_msgs, combined_df) ==
    IF ~press THEN <<>>
    ELSE IF files = <<>> THEN <<Msg("warning_no_upload", <<>>, "", 0)>>
    ELSE ingest_msgs \o
         (IF combined_df # None
          THEN <<Msg("success_merged", <<>>, "", 0)>>
          ELSE <<Msg("error_failed_merge", <<>>, "", 0)>>)

\* The display block on the session's frame raw (not None): the local df after
\* each step, the messages, and whether the metrics line faults.
Display(raw, dup, t, sc, asc) ==
    LET copy == raw
        pruned == IF t < KeepAllThreshold THEN PruneColumns(copy, t) ELSE copy
        dropped_count == Len(copy.columns) - Len(pruned.columns)
        deduped == IF dup THEN DropDuplicates(pruned) ELSE pruned
        removed == Len(pruned.rows) - Len(deduped.rows)
        sorting == sc # "None" /\ sc \in Range(deduped.columns)
        k == IF sorting THEN IndexOf(deduped.columns, sc) ELSE 0
        raises == sorting /\ SortRaises(deduped, k)
        sorted == IF sorting /\ ~raises THEN SortValues(deduped, k, asc)
                  ELSE deduped
        keyerror == "source_file" \notin Range(sorted.columns)
    IN [df    |-> sorted,
        msgs  |-> (IF dropped_count > 0
                   THEN <<Msg("info_dropped_columns", <<>>, "", dropped_count)>>
                   ELSE <<>>)
                  \o (IF removed # 0
                      THEN <<Msg("info_removed_duplicates", <<>>, "", removed)>>
                      ELSE <<>>)
                  \o (IF raises
                      THEN <<Msg("warning_could_not_sort", <<>>, sc, 0)>>
                      ELSE <<>>),
        fault |-> IF keyerror THEN "KeyError" ELSE "none",
        csv   |-> IF keyerror THEN NoBytes ELSE ConvertDfToCsv(sorted)]

NoDisplay == [df |-> None, msgs |-> <<>>, fault |-> "none", csv |-> NoBytes]

\* What one run of main() with the widget values given leaves behind.
Outcome(press, files, join, dup, t, sc, asc) ==
    LET got == IF press THEN Ingest(files) ELSE NoIngest
        combined_df == MergeResult(got.dfs, join)
        raw == AfterProcessing(press, files, combined_df)
        shown == IF raw # None THEN Display(raw, dup, t, sc, asc) ELSE NoDisplay
    IN [all_dfs  |-> got.dfs,
        calls    |-> got.calls,
        raw      |-> IF raw # None THEN RawAfterDisplay(raw, shown.df) ELSE raw,
        df       |-> shown.df,
        csv      |-> shown.csv,
        messages |-> ProcessingMessages(press, files, got.msgs, combined_df)
                         \o shown.msgs,
        fault    |-> shown.fault]

\* One run of main() with the widget values given.
Run(press, files, join, dup, t, sc, asc) ==
    \E out \in {Outcome(press, files, join, dup, t, sc, asc)} :
       /\ sort_options' = SortOptions(raw_combined_df)
       /\ process_button' = press
       /\ uploaded_files' = files
       /\ join_str' = join
       /\ remove_duplicates' = dup
       /\ missing_threshold' = t
       /\ sort_col' = sc
       /\ sort_ascending' = asc
       /\ all_dfs' = out.all_dfs
       /\ reader_calls' = out.calls
       /\ raw_combined_df' = out.raw
       /\ df' = out.df
       /\ csv_data' = out.csv
       /\ messages' = out.messages
       /\ fault' = out.fault

----------------------------------------------------------------------------
(* The uploads the runs draw from *)

\* a.csv: X,Y with a repeated row and missing Y cells (Y is read as float64).
FileA ==
    Upload(<<"a">> \o DotCsv,
           Parsed(<<"X", "Y">>,
                  << <<IntCell(3), NULL>>, <<IntCell(1), FloatCell(2)>>,
                     <<IntCell(3), NULL>> >>),
           NotAZip)
\* B.CSV: an upper-case suffix, and a source_file column of its own.
FileB ==
    Upload(<<"B", ".", "C", "S", "V">>,
           Parsed(<<"source_file", "Z">>,
                  << <<StrCell(<<"o", "l", "d">>), IntCell(5)>> >>),
           NotAZip)
\* c.csv: empty or malformed, pd.read_csv raises.
FileC == Upload(<<"c">> \o DotCsv, ParseError, NotAZip)
\* h.csv: a header line and no data row.
FileH == Upload(<<"h">> \o DotCsv, Parsed(<<"X">>, <<>>), NotAZip)
\* n.txt: neither suffix.
FileN == Upload(<<"n", ".", "t", "x", "t">>, ParseError, NotAZip)
\* x.zip: not a ZIP container.
FileX == Upload(<<"x">> \o DotZip, ParseError, NotAZip)
\* w.zip: a ZIP without any CSV entry.
FileW ==
    Upload(<<"w">> \o DotZip, ParseError,
           Zip(<< Entry(<<"r", ".", "t", "x", "t">>, TRUE, ParseError) >>))
\* z.zip: an entry in a directory, a platform-metadata entry, an entry with an
\* upper-case suffix and a text file.
FileZ ==
    Upload(<<"z">> \o DotZip, ParseError,
           Zip(<< Entry(<<"d", "/", "e">> \o DotCsv, TRUE,
                        Parsed(<<"Y", "X", "Z">>,
                               << <<IntCell(7), IntCell(8), IntCell(6)>> >>)),
                  Entry(MacosxPrefix \o <<".", "_", "e">> \o DotCsv, TRUE,
                        ParseError),
                  Entry(<<"F", ".", "C", "S", "V">>, TRUE,
                        Parsed(<<"X">>, << <<IntCell(9)>> >>)),
                  Entry(<<"r", ".", "t", "x", "t">>, TRUE, ParseError) >>))
\* y.zip: an entry that does not parse, an entry z.open refuses (encrypted, or
\* its local header is damaged), then a good entry.
FileY ==
    Upload(<<"y">> \o DotZip, ParseError,
           Zip(<< Entry(<<"k">> \o DotCsv, TRUE, ParseError),
                  Entry(<<"g">> \o DotCsv, FALSE, ParseError),
                  Entry(<<"h">> \o DotCsv, TRUE,
                        Parsed(<<"Z">>, << <<IntCell(4)>> >>)) >>))

IngestCatalog == {FileA, FileB, FileC, FileN, FileX, FileW, FileZ, FileY}
SessionCatalog == {FileA, FileC, FileH}

MergeTypes == {"Keep ALL columns (Union)", "Keep ONLY common columns (Intersection)"}
\* Slider positions tried (the slider offers 0, 5, ..., 100).
Thresholds == {0, 50, 100}

SeqsUpTo(S, n) == UNION {[1..k -> S] : k \in 0..n}

----------------------------------------------------------------------------
(* The session *)

\* The first run of the script in a fresh session: nothing uploaded, every
\* widget at its default.
Init ==
    /\ raw_combined_df = None
    /\ uploaded_files = <<>>
    /\ join_str = "outer"
    /\ process_button = FALSE
    /\ remove_duplicates = FALSE
    /\ missing_threshold = KeepAllThreshold
    /\ sort_col = "None"
    /\ sort_ascending = TRUE
    /\ sort_options = <<"None">>
    /\ all_dfs = <<>>
    /\ reader_calls = <<>>
    /\ df = None
    /\ csv_data = NoBytes
    /\ messages = <<>>
    /\ fault = "none"

\* data_exists at the top of a run.
DataExists == raw_combined_df # None

\* The selectbox keeps its value while its options are the same; built with
\* other options it is a new widget at its first option.
RetainedSortCol ==
    IF SortOptions(raw_combined_df) = sort_options THEN sort_col ELSE "None"

\* "Merge Files" pressed with the uploader holding files and the radio at
\* merge_type; the cleaning widgets keep their values.
MergePress(files, merge_type) ==
    Run(TRUE, files, JoinStr(merge_type), remove_duplicates,
        missing_threshold, RetainedSortCol, sort_ascending)

\* The cleaning widgets are disabled while the session holds no frame.
ToggleRemoveDuplicates ==
    /\ DataExists
    /\ Run(FALSE, uploaded_files, join_str, ~remove_duplicates,
           missing_threshold, RetainedSortCol, sort_ascending)

SetMissingThreshold(t) ==
    /\ DataExists
    /\ t # missing_threshold
    /\ Run(FALSE, uploaded_files, join_str, remove_duplicates, t,
           RetainedSortCol, sort_ascending)

SelectSortColumn(c) ==
    /\ DataExists
    /\ c \in Range(SortOptions(raw_combined_df))
    /\ c # RetainedSortCol
    /\ Run(FALSE, uploaded_files, join_str, remove_duplicates,
           missing_threshold, c, sort_ascending)

ToggleAscending ==
    /\ DataExists
    /\ RetainedSortCol # "None"
    /\ Run(FALSE, uploaded_files, join_str, remove_duplicates,
           missing_threshold, RetainedSortCol, ~sort_ascending)

PressMerge ==
    \E files \in SeqsUpTo(SessionCatalog, MaxBatch), merge_type \in MergeTypes :
        MergePress(files, merge_type)

ChooseThreshold == \E t \in Thresholds : SetMissingThreshold(t)

ChooseSortColumn ==
    \E c \in {"None", "X", "Y", "Z", "source_file"} : SelectSortColumn(c)

Next ==
    \/ PressMerge
    \/ ToggleRemoveDuplicates
    \/ ChooseThreshold
    \/ ChooseSortColumn
    \/ ToggleAscending

\* An interactive session: merges and changes of the cleaning options.
Spec == Init /\ [][Next]_vars

\* The first merge of a fresh session, over the larger catalogue of uploads.
FirstMerge ==
    /\ ~process_button
    /\ \E files \in SeqsUpTo(IngestCatalog, MaxUploads), merge_type \in MergeTypes :
           MergePress(files, merge_type)

NextIngest == FirstMerge

SpecIngest == Init /\ [][NextIngest]_vars

----------------------------------------------------------------------------
(* Properties *)

\* The last run was a merge press on a non-empty upload list.
Merged == process_button /\ uploaded_files # <<>>

IsCsvUpload(file) == EndsWith(Lower(file.name), DotCsv)
IsZipUpload(file) == ~IsCsvUpload(file) /\ EndsWith(Lower(file.name), DotZip)

\* Equal cells, a whole number being the same value as int64 and as float64.
SameValue(a, b) ==
    \/ a = b
    \/ IsNumber(a) /\ IsNumber(b) /\ a.v = b.v

\* The upload, or the archive entry, a reader call was made for.
ItemParsed(files, u, m) ==
    IF m = 0 THEN files[u].parsed ELSE files[u].zip.entries[m].parsed

\* <<upload, member>> of the reader calls, in call order.
CallPlaces == [i \in 1..Len(reader_calls) |->
                  <<reader_calls[i].upload, reader_calls[i].member>>]

\* The frames of the reader calls that parsed, in call order.
FramesOfCalls ==
    LET Ok(c) == ItemParsed(uploaded_files, c.upload, c.member).ok
        good == SelectSeq(reader_calls, Ok)
    IN [j \in 1..Len(good) |->
           LET p == ItemParsed(uploaded_files, good[j].upload, good[j].member)
           IN SetSourceFile(p.columns, p.rows, good[j].name)]

\* Every item that can be read, in supply order: a CSV upload, and every CSV
\* entry of a valid archive that opens, whatever happened to the items before.
RECURSIVE ExpectedVisits(_, _)
ExpectedVisits(files, u) ==
    IF u > Len(files) THEN <<>>
    ELSE LET file == files[u]
             Opens(m) == /\ IsCsvMember(file.zip.entries[m].filename)
                         /\ file.zip.entries[m].openable
             members == SelectSeq([m \in 1..Len(file.zip.entries) |-> m], Opens)
         IN (IF IsCsvUpload(file) THEN << <<u, 0>> >>
             ELSE IF IsZipUpload(file) /\ file.zip.valid
             THEN [j \in 1..Len(members) |-> <<u, members[j]>>]
             ELSE <<>>)
            \o ExpectedVisits(files, u + 1)

\* C1: a failure on one item (an unparsable CSV, an invalid ZIP, an archive
\* entry that cannot be opened or parsed) is isolated to that item: every later
\* upload and every later entry of the same archive is still read, and the
\* frames merged are exactly those of the items that parse, in supply order.
C1_FailuresIsolated ==
    Merged =>
        /\ CallPlaces = ExpectedVisits(uploaded_files, 1)
        /\ all_dfs = FramesOfCalls

\* C2: once a merge was triggered on a non-empty upload list, the export is
\* reached exactly when a frame survived ingestion, and no run faults, whatever
\* the remove-duplicates, threshold and sort settings are.
C2_ExportIffTables ==
    uploaded_files # <<>> =>
        /\ csv_data.isbytes <=> raw_combined_df # None
        /\ fault = "none"

\* Number of rows of the frames before the i-th.
RECURSIVE RowsBefore(_, _)
RowsBefore(dfs, i) ==
    IF i <= 1 THEN 0 ELSE RowsBefore(dfs, i - 1) + Len(dfs[i - 1].rows)

\* Row r of frame i is row RowsBefore(i) + r of the result, cell by cell on
\* the columns the result kept.
RowsInPlace(raw, dfs) ==
    \A i \in 1..Len(dfs) : \A r \in 1..Len(dfs[i].rows) :
        \A k \in 1..Len(raw.columns) :
            raw.columns[k] \in Range(dfs[i].columns) =>
                SameValue(raw.rows[RowsBefore(dfs, i) + r][k],
                          dfs[i].rows[r][IndexOf(dfs[i].columns, raw.columns[k])])

PlaceLess(a, b) == a[1] < b[1] \/ (a[1] = b[1] /\ a[2] < b[2])

FirstSeen(dfs, c) ==
    LET i == CHOOSE i \in 1..Len(dfs) :
                 /\ c \in Range(dfs[i].columns)
                 /\ \A j \in 1..(i - 1) : c \notin Range(dfs[j].columns)
    IN <<i, IndexOf(dfs[i].columns, c)>>

\* A cell of a column the row's frame did not have.
FilledCell(raw, dfs) ==
    \E i \in 1..Len(dfs) : \E r \in 1..Len(dfs[i].rows) :
        \E k \in 1..Len(raw.columns) : raw.columns[k] \notin Range(dfs[i].columns)

C5_IntersectionColumns ==
    (Merged /\ raw_combined_df # None /\ join_str = "inner") =>
        LET raw == raw_combined_df
            n == Len(raw.columns)
            first == all_dfs[1].columns
        IN /\ Range(raw.columns) =
                  {c \in Range(first) :
                      \A i \in 1..Len(all_dfs) : c \in Range(all_dfs[i].columns)}
           /\ Cardinality(Range(raw.columns)) = n
           /\ \A k1, k2 \in 1..n :
                  k1 < k2 => IndexOf(first, raw.columns[k1])
                                 < IndexOf(first, raw.columns[k2])
           /\ "source_file" \in Range(raw.columns)
           /\ Len(raw.rows) = RowsBefore(all_dfs, Len(all_dfs) + 1)
           /\ RowsInPlace(raw, all_dfs)

C5_Witness ==
    /\ Merged
    /\ join_str = "inner"
    /\ Len(all_dfs) >= 2
    /\ Len(all_dfs[1].columns) >= 2
    /\ Len(all_dfs[2].columns) >= 2
    /\ raw_combined_df.columns = <<"source_file">>
    /\ Len(raw_combined_df.rows) >= 2

\* The rule the interface documents for an archive entry: a .csv suffix in any
\* letter case, outside the platform-metadata directory.
IsTabularEntry(filename) ==
    /\ EndsWith(Lower(filename), DotCsv)
    /\ ~StartsWith(filename, MacosxPrefix)

\* name is "<archive> -> <base>", base being the last path component of filename.
IsCompositeOf(name, zipname, filename) ==
    LET head == zipname \o Arrow
        base == SubSeq(name, Len(head) + 1, Len(name))
    IN /\ StartsWith(name, head)
       /\ "/" \notin Range(base)
       /\ EndsWith(filename, base)
       /\ \/ Len(base) = Len(filename)
          \/ filename[Len(filename) - Len(base)] = "/"

\* Every entry of the archive can be opened.
AllOpen(file) ==
    \A m \in 1..Len(file.zip.entries) : file.zip.entries[m].openable

\* C6: an archive entry is passed to the table reader exactly when its name
\* ends with .csv in any letter case and its path does not begin with
\* __MACOSX/; each entry read is named "<archive> -> <base name of the entry>".
\* Stated for the archives whose entries all open, so that what decides it is
\* the filter alone (an entry that does not open is the case of C1).
C6_MemberFilter ==
    Merged =>
        \A u \in 1..Len(uploaded_files) :
            LET file == uploaded_files[u] IN
            (IsZipUpload(file) /\ file.zip.valid /\ AllOpen(file)) =>
                \A m \in 1..Len(file.zip.entries) :
                    LET Here(c) == c.upload = u /\ c.member = m
                        read == SelectSeq(reader_calls, Here)
                    IN /\ read # <<>> <=> IsTabularEntry(file.zip.entries[m].filename)
                       /\ \A j \in 1..Len(read) :
                              IsCompositeOf(read[j].name, file.name,
                                            file.zip.entries[m].filename)

\* C7: for every threshold t the pruning step drops a column exactly when its
\* share of null cells is strictly above t percent, also in a frame without
\* rows: at 100 nothing is dropped, at 0 exactly the columns with a null.
C7_PruneRule ==
    raw_combined_df # None =>
        \A k \in 1..Len(raw_combined_df.columns) :
            raw_combined_df.columns[k] \notin Range(df.columns)
                <=> NullCount(raw_combined_df, k) * 100
                        > missing_threshold * Len(raw_combined_df.rows)

\* C8: when the selected sort column was removed by the pruning step, the sort
\* is skipped, the rows stay as duplicate removal left them, a diagnostic
\* naming the sort column is shown, and the run does not fault.  Stated for a
\* frame that has rows (what pruning does to a frame without rows is the case
\* of C7).
C8_SortColumnPruned ==
    (/\ raw_combined_df # None
     /\ raw_combined_df.rows # <<>>
     /\ sort_col # "None"
     /\ sort_col \in Range(raw_combined_df.columns)
     /\ sort_col \notin Range(df.columns)) =>
        LET pruned == IF missing_threshold < KeepAllThreshold
                      THEN PruneColumns(raw_combined_df, missing_threshold)
                      ELSE raw_combined_df
        IN /\ df = (IF remove_duplicates THEN DropDuplicates(pruned) ELSE pruned)
           /\ \E i \in 1..Len(messages) : messages[i].col = sort_col
           /\ fault = "none"

\* C9: a run without a merge leaves the session's raw frame as it was, and
\* what it shows and exports is derived from that raw frame and the current
\* option values alone.
C9_RawRetained ==
    [][~process_button' =>
          /\ raw_combined_df' = raw_combined_df
          /\ raw_combined_df' # None =>
                LET shown == Display(raw_combined_df', remove_duplicates',
                                     missing_threshold', sort_col',
                                     sort_ascending')
                IN /\ df' = shown.df
                   /\ csv_data' = shown.csv]_vars

C9_Witness ==
    /\ ~process_button
    /\ raw_combined_df # None
    /\ remove_duplicates
    /\ missing_threshold = 50
    /\ sort_col = "X"
    /\ df.columns # raw_combined_df.columns
    /\ Len(df.rows) < Len(raw_combined_df.rows)
    /\ csv_data.isbytes

\* The names of the uploads of a list.
UploadNames(files) == {files[i].name : i \in 1..Len(files)}

\* C10: the frame in the session is that of the most recent merge press on a
\* non-empty upload list: absent when that batch gave no frame (so nothing of
\* an earlier batch is shown or exported), otherwise holding that batch's rows
\* only; any other run leaves it as it was.
C10_LastBatchOnly ==
    [][IF process_button' /\ uploaded_files' # <<>>
       THEN IF all_dfs' = <<>>
            THEN /\ raw_combined_df' = None
                 /\ df' = None
                 /\ ~csv_data'.isbytes
            ELSE /\ raw_combined_df' # None
                 /\ Len(raw_combined_df'.rows)
                        = RowsBefore(all_dfs', Len(all_dfs') + 1)
                 /\ \A r \in 1..Len(raw_combined_df'.rows) :
                        raw_combined_df'.rows[r][IndexOf(raw_combined_df'.columns,
                                                         "source_file")].v
                            \in UploadNames(uploaded_files')
       ELSE raw_combined_df' = raw_combined_df]_vars

\* A failed merge in a session whose options had been changed, so that an
\* earlier batch had given a frame.
C10_Witness ==
    /\ Merged
    /\ all_dfs = <<>>
    /\ raw_combined_df = None
    /\ missing_threshold # KeepAllThreshold
    /\ remove_duplicates

====
